---- MODULE Spec2Model ----
(***************************************************************************)
(* Chat client of src/src/App.tsx: handleSubmit posts the user's message   *)
(* to the webhook, pollForResponse polls the status endpoint, and the      *)
(* useEffect cleanup clears the timer held in pollTimeoutRef.               *)
(*                                                                         *)
(* One submit/poll cycle is one asynchronous call chain of handleSubmit;   *)
(* the chain of cycle c is cycles[c].  Message timestamps are not          *)
(* modelled (no operation reads them back).                                *)
(***************************************************************************)
EXTENDS Integers, Sequences, FiniteSets, TLC

(* ------------------------------ bounds --------------------------------- *)
\* number of submissions explored in one behaviour
MaxCycles == 2
\* a submission is polled up to the ceiling while it is the only one made;
\* once there are several, each is followed through this many retries
MaxLaterBusy == 1

(* ------------------------- program constants --------------------------- *)
\* if (retries > 30)
MaxRetries == 30
\* response.status === 202
InProgress == 202

Greeting == "Hi! I'm MetaJungkok, powered by Jhunpaul. How can I help you today?"
TimeoutText == "I apologize, but I didn't receive a response in time. Please try again."
FallbackText == "I apologize, but I couldn't understand your request."
PollErrorText == "I apologize, but I encountered an error while processing your request."
NoMessageIdText == "No messageId received in the response"
GenericErrorText == "An unexpected error occurred. Please try again later."

(* ------------------------------ inputs --------------------------------- *)
\* texts the user types into the input field (onChange)
Inputs == {" ", "hi"}

\* String.prototype.trim on the texts the model uses
Trim(s) == IF s = " " THEN "" ELSE s

\* a parsed or raw body: for text/plain, str is the whole body; for JSON,
\* valid says whether response.json() parses, has whether the field read by
\* the code (messageId, response.content) is present, str its value
Body(valid, has, str) == [valid |-> valid, has |-> has, str |-> str]

\* outcome of fetch: threw = the promise rejected (network failure)
Resp(threw, status, ctype, body) ==
    [threw |-> threw, status |-> status, ctype |-> ctype, body |-> body]

NoResp == Resp(FALSE, 0, "", Body(FALSE, FALSE, ""))
NetworkFailure == Resp(TRUE, 0, "", Body(FALSE, FALSE, "Failed to fetch"))

\* responses of the submission endpoint
SubmitStatuses == {400, 401, 403, 404, 429, 500}
SubmitResponses ==
    {NetworkFailure}
    \cup {Resp(FALSE, s, "text/plain", Body(TRUE, TRUE, "error page")) : s \in SubmitStatuses}
    \cup {Resp(FALSE, 200, "text/plain", Body(TRUE, TRUE, t)) : t \in {"", "pong"}}
    \cup {Resp(FALSE, 200, "application/json", Body(TRUE, TRUE, "job-1")),
          Resp(FALSE, 200, "application/json", Body(TRUE, FALSE, "")),
          Resp(FALSE, 200, "application/json", Body(FALSE, FALSE, "Unexpected end of JSON input"))}

\* responses of the status endpoint other than "in progress"
FinalResponses ==
    {NetworkFailure}
    \cup {Resp(FALSE, 200, "text/plain", Body(TRUE, TRUE, t)) : t \in {"", "pong"}}
    \cup {Resp(FALSE, 404, "text/plain", Body(TRUE, TRUE, "Not Found"))}
    \cup {Resp(FALSE, 200, "application/json", Body(TRUE, TRUE, "pong")),
          Resp(FALSE, 200, "application/json", Body(TRUE, FALSE, "")),
          Resp(FALSE, 200, "application/json", Body(FALSE, FALSE, "Unexpected end of JSON input"))}
BusyResponse == Resp(FALSE, InProgress, "text/plain", Body(TRUE, TRUE, "Accepted"))

(* ------------------------------ helpers -------------------------------- *)
\* response.ok
Ok(resp) == resp.status >= 200 /\ resp.status <= 299

\* contentType.includes('application/json')
IsJson(ctype) == ctype = "application/json"

\* a thrown value: Error instances carry a message
Thrown(isError, message) == [isError |-> isError, message |-> message]

Message(type, content) == [type |-> type, content |-> content]

\* case 401 without its break: it falls through to the text of 403
StatusReason_fallThrough(status) ==
    CASE status = 400 -> "Invalid request format"
      [] status = 401 -> "Unauthorized accessAccess forbidden"
      [] status = 403 -> "Access forbidden"
      [] status = 429 -> "Too many requests, please try again later"
      [] status = 500 -> "Internal server error"
      [] OTHER -> "Unexpected error occurred"

\* the switch on response.status and the prefix built before it
StatusReason(status) ==
    CASE status = 400 -> "Invalid request format"
      [] status = 401 -> "Unauthorized access"
      [] status = 403 -> "Access forbidden"
      [] status = 429 -> "Too many requests, please try again later"
      [] status = 500 -> "Internal server error"
      [] OTHER -> "Unexpected error occurred"

ErrorMessage(status) ==
    "Server error (Status " \o ToString(status) \o "): " \o StatusReason(status)

\* messages.map(msg => ({role: ..., content: msg.content}))
RoleOf(type) == IF type = "user" THEN "user" ELSE "assistant"

ConversationHistory(msgs) ==
    [i \in 1..Len(msgs) |-> [role |-> RoleOf(msgs[i].type), content |-> msgs[i].content]]

\* content of the bot message of handleSubmit's catch block
CatchContent(error) == IF error.isError THEN error.message ELSE GenericErrorText

\* the content read without the || fallback
ReplyContent_noFallback(body) == body.str

\* responseData.response?.content || "I apologize, but I couldn't understand..."
ReplyContent(body) == IF body.has /\ body.str # "" THEN body.str ELSE FallbackText

(* ------------------------------- state --------------------------------- *)
VARIABLES
    messages,        \* useState<Message[]>
    input,           \* useState('')
    isTyping,        \* useState(false)
    pollTimeoutRef,  \* cycle whose timer the ref holds, 0 = undefined
    mounted,         \* the component has not been torn down
    nCycles,         \* number of submissions accepted so far
    cycles           \* the call chain of each submission

vars == <<messages, input, isTyping, pollTimeoutRef, mounted, nCycles, cycles>>

CycleIds == 1..MaxCycles

\* pc: "none" not submitted, "submit" POST in flight, "status" GET in flight,
\*     "timer" retry timer pending, "cleared" retry timer cleared before it
\*     fired, "done" the chain has returned, "past" a chain that had ended
\*     (returned or been cleared) before a later submission
\* retries: the argument of the pending or running pollForResponse call
\* request: the body of the POST; messageId: the job being polled
\* The other fields record what happened to the chain:
\*   submitResp  what the POST resolved to
\*   queries     status queries issued
\*   busy        status queries the endpoint answered with 202
\*   final       the status response after which the chain returned
\*   outcome     the branch in which the chain returned
\*   userIdx, botIdx  positions in messages of the user message and of the
\*               bot message of this cycle (0 = none)
NoCycle ==
    [pc |-> "none", retries |-> 0, messageId |-> "",
     request |-> [message |-> "", conversation_history |-> <<>>],
     submitResp |-> NoResp, queries |-> 0, busy |-> 0, final |-> NoResp,
     outcome |-> "none", userIdx |-> 0, botIdx |-> 0]

Init ==
    /\ messages = <<Message("bot", Greeting)>>
    /\ input = ""
    /\ isTyping = FALSE
    /\ pollTimeoutRef = 0
    /\ mounted = TRUE
    /\ nCycles = 0
    /\ cycles = [c \in CycleIds |-> NoCycle]

(* --------------------------- React plumbing ---------------------------- *)
\* clearTimeout(pollTimeoutRef.current): the timer the ref holds is the last
\* one set, which is pending only while its cycle waits on it
ClearTimer(cyc) ==
    IF pollTimeoutRef # 0 /\ cyc[pollTimeoutRef].pc = "timer"
    THEN [cyc EXCEPT ![pollTimeoutRef].pc = "cleared"]
    ELSE cyc

\* the new message put in front: [m, ...prev]
SetMessages_prepend(m) == IF mounted THEN <<m>> \o messages ELSE messages

\* setMessages(prev => [...prev, m]); a state update of a component that
\* has been unmounted is dropped by React
SetMessages(m) == IF mounted THEN Append(messages, m) ELSE messages

\* setIsTyping(false)
SetIsTypingFalse == IF mounted THEN FALSE ELSE isTyping

\* the new messages array re-renders the component, and the cleanup of the
\* effect that depends on [messages] runs
EffectCleanup(cyc) == IF mounted THEN ClearTimer(cyc) ELSE cyc

\* the record of a chain that has ended keeps its counters until the next
\* submission; afterwards only its request and its place in the log are kept
Archive(cyc) ==
    [c \in CycleIds |->
        IF cyc[c].pc \in {"done", "cleared", "past"}
        THEN [cyc[c] EXCEPT !.pc = "past", !.retries = 0, !.messageId = "",
                            !.submitResp = NoResp, !.queries = 0, !.busy = 0,
                            !.final = NoResp]
        ELSE cyc[c]]

\* position of the message an append adds now (0 when the update is dropped)
NextIdx == IF mounted THEN Len(messages) + 1 ELSE 0

\* the chain of cycle c has a request in flight or a timer pending
Running(c) == cycles[c].pc \in {"submit", "status", "timer"}

\* 1 for an "in progress" answer of the status endpoint
BusyAnswer(resp) == IF ~resp.threw /\ resp.status = 202 THEN 1 ELSE 0

(* ------------------------------ operations ----------------------------- *)
\* onChange of the input field
setInput(v) ==
    /\ mounted
    /\ nCycles < MaxCycles
    /\ input # v
    /\ input' = v
    /\ UNCHANGED <<messages, isTyping, pollTimeoutRef, mounted, nCycles, cycles>>

\* the history taken from the log that already holds the new user message
handleSubmit_historyWithSelf ==
    /\ mounted
    /\ IF Trim(input) = ""
       THEN UNCHANGED vars
       ELSE /\ nCycles < MaxCycles
            /\ \A d \in CycleIds : Running(d) => cycles[d].retries <= MaxLaterBusy
            /\ LET c == nCycles + 1
                   started == [NoCycle EXCEPT
                                  !.pc = "submit",
                                  !.request = [message |-> input,
                                               conversation_history |->
                                                   ConversationHistory(SetMessages(Message("user", input)))],
                                  !.userIdx = NextIdx]
               IN /\ messages' = SetMessages(Message("user", input))
                  /\ input' = ""
                  /\ isTyping' = TRUE
                  /\ nCycles' = c
                  /\ cycles' = Archive(EffectCleanup([cycles EXCEPT ![c] = started]))
            /\ UNCHANGED <<pollTimeoutRef, mounted>>

\* the blank test on the raw input: a text of spaces is submitted
handleSubmit_noTrim ==
    /\ mounted
    /\ IF input = ""
       THEN UNCHANGED vars
       ELSE /\ nCycles < MaxCycles
            /\ \A d \in CycleIds : Running(d) => cycles[d].retries <= MaxLaterBusy
            /\ LET c == nCycles + 1
                   started == [NoCycle EXCEPT
                                  !.pc = "submit",
                                  !.request = [message |-> input,
                                               conversation_history |->
                                                   ConversationHistory(messages)],
                                  !.userIdx = NextIdx]
               IN /\ messages' = SetMessages(Message("user", input))
                  /\ input' = ""
                  /\ isTyping' = TRUE
                  /\ nCycles' = c
                  /\ cycles' = Archive(EffectCleanup([cycles EXCEPT ![c] = started]))
            /\ UNCHANGED <<pollTimeoutRef, mounted>>

\* handleSubmit up to the await of the POST; a blank input returns at once
handleSubmit ==
    /\ mounted
    /\ IF Trim(input) = ""
       THEN UNCHANGED vars
       ELSE /\ nCycles < MaxCycles
            /\ \A d \in CycleIds : Running(d) => cycles[d].retries <= MaxLaterBusy
            /\ LET c == nCycles + 1
                   started == [NoCycle EXCEPT
                                  !.pc = "submit",
                                  !.request = [message |-> input,
                                               conversation_history |->
                                                   ConversationHistory(messages)],
                                  !.userIdx = NextIdx]
               IN /\ messages' = SetMessages(Message("user", input))
                  /\ input' = ""
                  /\ isTyping' = TRUE
                  /\ nCycles' = c
                  /\ cycles' = Archive(EffectCleanup([cycles EXCEPT ![c] = started]))
            /\ UNCHANGED <<pollTimeoutRef, mounted>>

\* the bot message appended without setIsTyping(false)
Finish_typingStays(cyc, c, outcome, content) ==
    /\ messages' = SetMessages(Message("bot", content))
    /\ isTyping' = isTyping
    /\ cycles' = EffectCleanup([cyc EXCEPT ![c] =
                     [@ EXCEPT !.pc = "done", !.outcome = outcome, !.botIdx = NextIdx]])

\* the chain of cycle c returns after appending one bot message and
\* setIsTyping(false); cyc is cycles with the response recorded
Finish(cyc, c, outcome, content) ==
    /\ messages' = SetMessages(Message("bot", content))
    /\ isTyping' = SetIsTypingFalse
    /\ cycles' = EffectCleanup([cyc EXCEPT ![c] =
                     [@ EXCEPT !.pc = "done", !.outcome = outcome, !.botIdx = NextIdx]])

\* the ceiling compared with >= : the 31st query is never issued
pollForResponse_earlyCeiling(cyc, c, messageId, retries) ==
    IF retries >= MaxRetries
    THEN Finish([cyc EXCEPT ![c].retries = retries], c, "timeout", TimeoutText)
    ELSE /\ cycles' = [cyc EXCEPT ![c] =
                          [@ EXCEPT !.pc = "status", !.retries = retries,
                                    !.messageId = messageId, !.queries = @ + 1]]
         /\ UNCHANGED <<messages, isTyping>>

\* pollForResponse(messageId, retries) up to its first await or return
pollForResponse(cyc, c, messageId, retries) ==
    IF retries > MaxRetries
    THEN Finish([cyc EXCEPT ![c].retries = retries], c, "timeout", TimeoutText)
    ELSE /\ cycles' = [cyc EXCEPT ![c] =
                          [@ EXCEPT !.pc = "status", !.retries = retries,
                                    !.messageId = messageId, !.queries = @ + 1]]
         /\ UNCHANGED <<messages, isTyping>>

\* the plain-text branch without its return: the reply is appended and the
\* fallback message id is polled as well
SubmitResponse_noReturn(c, resp) ==
    /\ cycles[c].pc = "submit"
    /\ LET cyc == [cycles EXCEPT ![c].submitResp = resp]
       IN IF resp.threw
          THEN Finish(cyc, c, "submitError", CatchContent(Thrown(TRUE, resp.body.str)))
          ELSE IF Ok(resp)
          THEN IF IsJson(resp.ctype)
               THEN IF ~resp.body.valid
                    THEN Finish(cyc, c, "submitError",
                                CatchContent(Thrown(TRUE, resp.body.str)))
                    ELSE IF resp.body.has /\ resp.body.str # ""
                    THEN pollForResponse(cyc, c, resp.body.str, 0)
                    ELSE Finish(cyc, c, "submitError",
                                CatchContent(Thrown(TRUE, NoMessageIdText)))
               ELSE /\ messages' = SetMessages(Message("bot", resp.body.str))
                    /\ isTyping' = SetIsTypingFalse
                    /\ cycles' = EffectCleanup([cyc EXCEPT ![c] =
                                     [@ EXCEPT !.pc = "status", !.messageId = "fallback-0",
                                               !.queries = @ + 1, !.botIdx = NextIdx]])
          ELSE Finish(cyc, c, "submitError",
                      CatchContent(Thrown(TRUE, ErrorMessage(resp.status))))
    /\ UNCHANGED <<input, pollTimeoutRef, mounted, nCycles>>

\* data.messageId not tested: the job is polled even when none was named
SubmitResponse_pollsAnyway(c, resp) ==
    /\ cycles[c].pc = "submit"
    /\ LET cyc == [cycles EXCEPT ![c].submitResp = resp]
       IN IF resp.threw
          THEN Finish(cyc, c, "submitError", CatchContent(Thrown(TRUE, resp.body.str)))
          ELSE IF Ok(resp)
          THEN IF IsJson(resp.ctype)
               THEN IF ~resp.body.valid
                    THEN Finish(cyc, c, "submitError",
                                CatchContent(Thrown(TRUE, resp.body.str)))
                    ELSE pollForResponse(cyc, c, resp.body.str, 0)
               ELSE Finish(cyc, c, "immediate", resp.body.str)
          ELSE Finish(cyc, c, "submitError",
                      CatchContent(Thrown(TRUE, ErrorMessage(resp.status))))
    /\ UNCHANGED <<input, pollTimeoutRef, mounted, nCycles>>

\* response.ok not consulted: an error status is handled like a success
SubmitResponse_ignoresOk(c, resp) ==
    /\ cycles[c].pc = "submit"
    /\ LET cyc == [cycles EXCEPT ![c].submitResp = resp]
       IN IF resp.threw
          THEN Finish(cyc, c, "submitError", CatchContent(Thrown(TRUE, resp.body.str)))
          ELSE IF IsJson(resp.ctype)
               THEN IF ~resp.body.valid
                    THEN Finish(cyc, c, "submitError",
                                CatchContent(Thrown(TRUE, resp.body.str)))
                    ELSE IF resp.body.has /\ resp.body.str # ""
                    THEN pollForResponse(cyc, c, resp.body.str, 0)
                    ELSE Finish(cyc, c, "submitError",
                                CatchContent(Thrown(TRUE, NoMessageIdText)))
               ELSE Finish(cyc, c, "immediate", resp.body.str)
    /\ UNCHANGED <<input, pollTimeoutRef, mounted, nCycles>>

\* handleSubmit from the resolution of the POST to its return
SubmitResponse(c, resp) ==
    /\ cycles[c].pc = "submit"
    /\ LET cyc == [cycles EXCEPT ![c].submitResp = resp]
       IN IF resp.threw
          THEN Finish(cyc, c, "submitError", CatchContent(Thrown(TRUE, resp.body.str)))
          ELSE IF Ok(resp)
          THEN IF IsJson(resp.ctype)
               THEN IF ~resp.body.valid
                    THEN Finish(cyc, c, "submitError",
                                CatchContent(Thrown(TRUE, resp.body.str)))
                    ELSE IF resp.body.has /\ resp.body.str # ""
                    THEN pollForResponse(cyc, c, resp.body.str, 0)
                    ELSE Finish(cyc, c, "submitError",
                                CatchContent(Thrown(TRUE, NoMessageIdText)))
               ELSE Finish(cyc, c, "immediate", resp.body.str)
          ELSE Finish(cyc, c, "submitError",
                      CatchContent(Thrown(TRUE, ErrorMessage(resp.status))))
    /\ UNCHANGED <<input, pollTimeoutRef, mounted, nCycles>>

\* the 202 test missing: an "in progress" answer is read as the final reply
StatusResponse_noInProgress(c, resp) ==
    /\ cycles[c].pc = "status"
    /\ LET cyc == [cycles EXCEPT ![c] =
                      [@ EXCEPT !.busy = @ + BusyAnswer(resp), !.final = resp]]
       IN IF resp.threw \/ (IsJson(resp.ctype) /\ ~resp.body.valid)
          THEN Finish(cyc, c, "pollError", PollErrorText)
          ELSE Finish(cyc, c, "ready", ReplyContent(resp.body))
    /\ UNCHANGED <<input, pollTimeoutRef, mounted, nCycles>>

\* a rejected status query retried like an "in progress" answer
StatusResponse_retriesOnError(c, resp) ==
    /\ cycles[c].pc = "status"
    /\ LET cyc == [cycles EXCEPT ![c] =
                      [@ EXCEPT !.busy = @ + BusyAnswer(resp),
                                !.final = IF BusyAnswer(resp) = 1 THEN @ ELSE resp]]
       IN IF resp.threw \/ resp.status = InProgress
          THEN /\ pollTimeoutRef' = c
               /\ cycles' = [cyc EXCEPT ![c].pc = "timer"]
               /\ isTyping' = SetIsTypingFalse
               /\ UNCHANGED messages
          ELSE IF IsJson(resp.ctype) /\ ~resp.body.valid
          THEN /\ Finish(cyc, c, "pollError", PollErrorText)
               /\ UNCHANGED pollTimeoutRef
          ELSE /\ Finish(cyc, c, "ready", ReplyContent(resp.body))
               /\ UNCHANGED pollTimeoutRef
    /\ UNCHANGED <<input, mounted, nCycles>>

\* the 202 branch without its setTimeout: the chain returns and nothing
\* polls again
StatusResponse_noRetry(c, resp) ==
    /\ cycles[c].pc = "status"
    /\ LET cyc == [cycles EXCEPT ![c] =
                      [@ EXCEPT !.busy = @ + BusyAnswer(resp),
                                !.final = IF BusyAnswer(resp) = 1 THEN @ ELSE resp]]
       IN IF resp.threw
          THEN Finish(cyc, c, "pollError", PollErrorText)
          ELSE IF resp.status = InProgress
          THEN /\ cycles' = [cyc EXCEPT ![c].pc = "done"]
               /\ isTyping' = SetIsTypingFalse
               /\ UNCHANGED messages
          ELSE IF IsJson(resp.ctype) /\ ~resp.body.valid
          THEN Finish(cyc, c, "pollError", PollErrorText)
          ELSE Finish(cyc, c, "ready", ReplyContent(resp.body))
    /\ UNCHANGED <<input, pollTimeoutRef, mounted, nCycles>>

\* the 202 branch without its return: the retry is scheduled and the answer
\* is appended as a reply as well
StatusResponse_noReturn(c, resp) ==
    /\ cycles[c].pc = "status"
    /\ LET cyc == [cycles EXCEPT ![c] =
                      [@ EXCEPT !.busy = @ + BusyAnswer(resp),
                                !.final = IF BusyAnswer(resp) = 1 THEN @ ELSE resp]]
       IN IF resp.threw
          THEN /\ Finish(cyc, c, "pollError", PollErrorText)
               /\ UNCHANGED pollTimeoutRef
          ELSE IF resp.status = InProgress
          THEN /\ pollTimeoutRef' = c
               /\ messages' = SetMessages(Message("bot", ReplyContent(resp.body)))
               /\ cycles' = [cyc EXCEPT ![c] = [@ EXCEPT !.pc = "timer", !.botIdx = NextIdx]]
               /\ isTyping' = SetIsTypingFalse
          ELSE IF IsJson(resp.ctype) /\ ~resp.body.valid
          THEN /\ Finish(cyc, c, "pollError", PollErrorText)
               /\ UNCHANGED pollTimeoutRef
          ELSE /\ Finish(cyc, c, "ready", ReplyContent(resp.body))
               /\ UNCHANGED pollTimeoutRef
    /\ UNCHANGED <<input, mounted, nCycles>>

\* pollForResponse from the resolution of the GET to its return
StatusResponse(c, resp) ==
    /\ cycles[c].pc = "status"
    /\ LET cyc == [cycles EXCEPT ![c] =
                      [@ EXCEPT !.busy = @ + BusyAnswer(resp),
                                !.final = IF BusyAnswer(resp) = 1 THEN @ ELSE resp]]
       IN IF resp.threw
          THEN /\ Finish(cyc, c, "pollError", PollErrorText)
               /\ UNCHANGED pollTimeoutRef
          ELSE IF resp.status = InProgress
          THEN /\ pollTimeoutRef' = c
               /\ cycles' = [cyc EXCEPT ![c].pc = "timer"]
               /\ isTyping' = SetIsTypingFalse
               /\ UNCHANGED messages
          ELSE IF IsJson(resp.ctype) /\ ~resp.body.valid
          THEN /\ Finish(cyc, c, "pollError", PollErrorText)
               /\ UNCHANGED pollTimeoutRef
          ELSE /\ Finish(cyc, c, "ready", ReplyContent(resp.body))
               /\ UNCHANGED pollTimeoutRef
    /\ UNCHANGED <<input, mounted, nCycles>>

\* the setTimeout callback: () => pollForResponse(messageId, retries + 1)
TimerFire(c) ==
    /\ cycles[c].pc = "timer"
    /\ pollForResponse(cycles, c, cycles[c].messageId, cycles[c].retries + 1)
    /\ UNCHANGED <<input, pollTimeoutRef, mounted, nCycles>>

\* component teardown: the effect cleanup runs one last time
Unmount ==
    /\ mounted
    /\ mounted' = FALSE
    /\ cycles' = ClearTimer(cycles)
    /\ UNCHANGED <<messages, input, isTyping, pollTimeoutRef, nCycles>>

(* ----------------------------- environment ----------------------------- *)
\* the status endpoint may answer "in progress" to query retries + 1 of c
MayBeBusy(c) == nCycles = 1 \/ cycles[c].retries < MaxLaterBusy

SubmitResolves == \E c \in CycleIds, resp \in SubmitResponses : SubmitResponse(c, resp)
StatusFinal == \E c \in CycleIds, resp \in FinalResponses : StatusResponse(c, resp)
StatusBusy == \E c \in CycleIds : MayBeBusy(c) /\ StatusResponse(c, BusyResponse)
TimerFires == \E c \in CycleIds : TimerFire(c)
Types == \E v \in Inputs \cup {""} : setInput(v)

Next ==
    \/ Types
    \/ handleSubmit
    \/ SubmitResolves
    \/ StatusFinal
    \/ StatusBusy
    \/ TimerFires
    \/ Unmount

Spec == Init /\ [][Next]_vars

\* the user waits for the reply before submitting again and the component
\* stays mounted; every request resolves and every timer fires
NoneRunning == \A c \in CycleIds : ~Running(c)
handleSubmitIdle == NoneRunning /\ handleSubmit

NextSingle ==
    \/ Types
    \/ handleSubmitIdle
    \/ SubmitResolves
    \/ StatusFinal
    \/ StatusBusy
    \/ TimerFires

FairSpec ==
    /\ Init
    /\ [][NextSingle]_vars
    /\ WF_vars(SubmitResolves)
    /\ WF_vars(StatusFinal \/ StatusBusy)
    /\ WF_vars(TimerFires)

(* ------------------------- reading the log ----------------------------- *)
BotPositions == {i \in 2..Len(messages) : messages[i].type = "bot"}
UserPositions == {i \in 1..Len(messages) : messages[i].type = "user"}

\* the log holds the greeting, one user message for each submission and one
\* bot message for each cycle that is recorded as having appended one
OneAppendEach ==
    /\ messages[1] = Message("bot", Greeting)
    /\ UserPositions = {cycles[c].userIdx : c \in {d \in CycleIds : cycles[d].userIdx # 0}}
    /\ BotPositions = {cycles[c].botIdx : c \in {d \in CycleIds : cycles[d].botIdx # 0}}
    /\ \A c, d \in CycleIds :
          cycles[c].botIdx # 0 /\ cycles[c].botIdx = cycles[d].botIdx => c = d

\* the bot message of cycle c is in the log and has this content
Appended(c, content) ==
    /\ cycles[c].botIdx \in 2..Len(messages)
    /\ messages[cycles[c].botIdx] = Message("bot", content)

\* C1: an endpoint that answers 202 to every query is queried exactly 31
\* times, never a 32nd; the chain then returns in the timeout branch and, in a
\* mounted component, has appended exactly one bot message, the timeout
\* message, which differs from the poll-error and the fallback texts; no
\* chain that ended otherwise carries the timeout message.
C1_TimeoutAfter31 ==
    /\ TimeoutText # PollErrorText
    /\ TimeoutText # FallbackText
    /\ OneAppendEach
    /\ \A c \in CycleIds :
          /\ cycles[c].queries <= 31
          /\ cycles[c].busy = 31 =>
                /\ cycles[c].queries = 31
                /\ cycles[c].pc \in {"timer", "cleared", "done"}
                /\ cycles[c].pc = "done" => cycles[c].outcome = "timeout"
          /\ cycles[c].pc = "done" /\ cycles[c].outcome = "timeout" =>
                /\ cycles[c].queries = 31
                /\ cycles[c].busy = 31
                /\ mounted => Appended(c, TimeoutText)
          /\ cycles[c].pc = "done" /\ cycles[c].outcome # "timeout" /\ cycles[c].botIdx # 0 =>
                messages[cycles[c].botIdx].content # TimeoutText

C1_Witness ==
    \E c \in CycleIds :
        /\ cycles[c].pc = "done"
        /\ cycles[c].outcome = "timeout"
        /\ cycles[c].busy = 31
        /\ cycles[c].queries = 31
        /\ Appended(c, TimeoutText)

\* C2: a chain whose status endpoint answered 202 to the first k queries
\* (k <= 30) and a final response to the next one has issued exactly k + 1
\* queries and, in a mounted component, has appended exactly one bot message.
C2_QueriesUntilFinal ==
    /\ OneAppendEach
    /\ \A c \in CycleIds :
          cycles[c].pc = "done" /\ cycles[c].final # NoResp /\ ~cycles[c].final.threw =>
              /\ cycles[c].busy <= 30
              /\ cycles[c].queries = cycles[c].busy + 1
              /\ mounted => cycles[c].botIdx \in BotPositions

C2_Witness ==
    /\ \E c \in CycleIds :
          /\ cycles[c].pc = "done"
          /\ cycles[c].final = Resp(FALSE, 200, "text/plain", Body(TRUE, TRUE, "pong"))
          /\ cycles[c].busy = 5
          /\ cycles[c].queries = 6
          /\ Appended(c, "pong")

\* C3: a 2xx plain-text answer of the submission endpoint ends the cycle at
\* once: no status query is issued and, in a mounted component, exactly one
\* bot message is appended, whose content is the body.
C3_PlainTextImmediate ==
    /\ OneAppendEach
    /\ \A c \in CycleIds :
          LET r == cycles[c].submitResp IN
          r # NoResp /\ ~r.threw /\ r.status \in 200..299 /\ r.ctype = "text/plain" =>
              /\ cycles[c].pc = "done"
              /\ cycles[c].queries = 0
              /\ mounted => Appended(c, r.body.str)

C3_Witness ==
    \E c \in CycleIds :
        /\ cycles[c].submitResp = Resp(FALSE, 200, "text/plain", Body(TRUE, TRUE, "pong"))
        /\ cycles[c].queries = 0
        /\ Appended(c, "pong")

\* C4: a non-2xx answer of the submission endpoint ends the cycle at once:
\* no status query is issued and, in a mounted component, exactly one bot
\* message is appended, the error text of that status.
C4_ErrorStatusNoPoll ==
    /\ OneAppendEach
    /\ \A c \in CycleIds :
          LET r == cycles[c].submitResp IN
          r # NoResp /\ ~r.threw /\ r.status \notin 200..299 =>
              /\ cycles[c].pc = "done"
              /\ cycles[c].queries = 0
              /\ mounted => Appended(c, ErrorMessage(r.status))
              /\ r.status = 429 /\ mounted =>
                    messages[cycles[c].botIdx].content =
                        "Server error (Status 429): Too many requests, please try again later"

C4_Witness ==
    \E c \in CycleIds :
        /\ cycles[c].submitResp.status = 429
        /\ cycles[c].queries = 0
        /\ Appended(c, "Server error (Status 429): Too many requests, please try again later")

\* C5: the bot message of a cycle is in the log only once the chain of that
\* cycle has returned, it stands after the user message of that cycle, no
\* cycle has more than one, and the bot messages after the greeting are never
\* more than the user messages.
C5_ReplyAfterResolution ==
    /\ OneAppendEach
    /\ \A c \in CycleIds :
          /\ Running(c) => cycles[c].botIdx = 0
          /\ cycles[c].botIdx # 0 =>
                /\ cycles[c].pc \in {"done", "past"}
                /\ cycles[c].userIdx \in UserPositions
                /\ cycles[c].botIdx \in BotPositions
                /\ cycles[c].userIdx < cycles[c].botIdx
    /\ Cardinality(BotPositions) <= Cardinality(UserPositions)

\* two overlapping cycles, the later one answered first
C5_Witness ==
    /\ cycles[1].botIdx # 0
    /\ cycles[2].botIdx # 0
    /\ cycles[2].botIdx < cycles[1].botIdx
    /\ cycles[1].userIdx < cycles[2].userIdx

\* bot messages that stand between the user message of c and the next
\* user message
RepliesTo(c) ==
    {i \in BotPositions :
        /\ cycles[c].userIdx < i
        /\ \A d \in CycleIds : cycles[c].userIdx < cycles[d].userIdx => i < cycles[d].userIdx}

\* the cycle of c is over: one bot message answers it, and the chain has no
\* request in flight and no timer pending
Resolved(c) ==
    /\ cycles[c].pc \in {"done", "past"}
    /\ cycles[c].botIdx \in RepliesTo(c)
    /\ Cardinality(RepliesTo(c)) = 1

\* C6: when every request resolves, every timer fires, the component stays
\* mounted and the user submits only while no cycle is running, every
\* accepted submission eventually has exactly one bot message and nothing of
\* it is pending any more.
C6_EveryCycleResolves ==
    \A c \in CycleIds : (cycles[c].pc = "submit") ~> Resolved(c)

\* the second submission resolved after a retry
C6_Witness ==
    /\ Resolved(1)
    /\ Resolved(2)
    /\ cycles[2].pc = "done"
    /\ cycles[2].busy >= 1

\* C7: at most one cycle has a request in flight or a timer pending.
C7_SingleFlight == Cardinality({c \in CycleIds : Running(c)}) <= 1

\* C8: once the component is torn down no retry timer is pending, and from
\* then on no message is appended and no status query is issued.
C8_QuietAfterTeardown ==
    [][~mounted' =>
          /\ \A c \in CycleIds : cycles'[c].pc # "timer"
          /\ ~mounted =>
                /\ messages' = messages
                /\ \A c \in CycleIds : cycles'[c].queries = cycles[c].queries]_vars

\* C9: every step leaves the previous log as a prefix of the new one.
C9_AppendOnly ==
    [][/\ Len(messages') >= Len(messages)
       /\ SubSeq(messages', 1, Len(messages)) = messages]_vars

\* two complete exchanges are in the log
C9_Witness ==
    /\ Len(messages) = 5
    /\ \A c \in CycleIds : c <= 2 => cycles[c].botIdx # 0

\* C10: the conversation_history of a request is the (role, content) pairs
\* of exactly the messages that precede the submitted user message, in log
\* order, a bot message sent as assistant and a user message as user; the
\* submitted text itself is the message field.
C10_HistoryIsTranscript ==
    \A c \in CycleIds :
        cycles[c].pc # "none" =>
            LET h == cycles[c].request.conversation_history
                n == cycles[c].userIdx - 1
            IN /\ cycles[c].userIdx \in UserPositions
               /\ Len(h) = n
               /\ \A i \in 1..n :
                     /\ h[i].content = messages[i].content
                     /\ messages[i].type = "user" => h[i].role = "user"
                     /\ messages[i].type = "bot" => h[i].role = "assistant"
                     /\ h[i].role \in {"user", "assistant"}
               /\ cycles[c].request.message = messages[cycles[c].userIdx].content

\* a request whose history holds the greeting, a user message and a reply
C10_Witness ==
    \E c \in CycleIds :
        LET h == cycles[c].request.conversation_history
        IN /\ Len(h) = 3
           /\ h[1] = [role |-> "assistant", content |-> Greeting]
           /\ h[2] = [role |-> "user", content |-> "hi"]
           /\ h[3] = [role |-> "assistant", content |-> "pong"]

\* a failure has ended the chain of cycle c: the POST was rejected, answered
\* with an error status or with JSON that does not parse or names no job,
\* a status query was rejected or answered with JSON that does not parse, or
\* the timer after the 31st "in progress" answer has fired
FailureSeen(c) ==
    LET r == cycles[c].submitResp
        f == cycles[c].final
    IN \/ r.threw
       \/ r # NoResp /\ ~r.threw /\ r.status \notin 200..299
       \/ r # NoResp /\ ~r.threw /\ r.status \in 200..299 /\ r.ctype = "application/json"
             /\ (~r.body.valid \/ ~r.body.has \/ r.body.str = "")
       \/ f.threw
       \/ f # NoResp /\ ~f.threw /\ f.ctype = "application/json" /\ ~f.body.valid
       \/ cycles[c].busy = 31 /\ cycles[c].pc \notin {"timer", "cleared"}

\* C11: after any failure of a cycle the chain has returned (no request in
\* flight, no timer pending for it) with its failure reported as a bot
\* message; once nothing else is running the busy flag is off, and a further
\* non-blank submission is accepted.
C11_UsableAfterFailure ==
    \A c \in CycleIds :
        FailureSeen(c) =>
            /\ cycles[c].pc = "done"
            /\ cycles[c].outcome \in {"submitError", "pollError", "timeout"}
            /\ mounted => cycles[c].botIdx \in BotPositions
            /\ mounted /\ NoneRunning =>
                  /\ isTyping = FALSE
                  /\ Trim(input) # "" /\ nCycles < MaxCycles =>
                        ENABLED (handleSubmit /\ nCycles' = nCycles + 1)

\* a submission made after a timed-out cycle has run a whole cycle of its own
C11_Witness ==
    /\ cycles[1].pc = "past"
    /\ Appended(1, TimeoutText)
    /\ cycles[2].pc = "done"
    /\ cycles[2].outcome = "ready"
    /\ cycles[2].busy = 1
    /\ Appended(2, "pong")
    /\ isTyping = FALSE

\* C12: the bot message for a non-2xx submission status carries the numeric
\* status and the reason of that status: 400 invalid request format, 401
\* unauthorized, 403 forbidden, 429 too many requests, 500 internal server
\* error, any other status unexpected error.
C12_StatusAndReason ==
    \A c \in CycleIds :
        LET r == cycles[c].submitResp
            text == messages[cycles[c].botIdx].content
        IN r # NoResp /\ ~r.threw /\ r.status \notin 200..299 /\ cycles[c].botIdx # 0 =>
              /\ r.status = 400 => text = "Server error (Status 400): Invalid request format"
              /\ r.status = 401 => text = "Server error (Status 401): Unauthorized access"
              /\ r.status = 403 => text = "Server error (Status 403): Access forbidden"
              /\ r.status = 429 =>
                    text = "Server error (Status 429): Too many requests, please try again later"
              /\ r.status = 500 => text = "Server error (Status 500): Internal server error"
              /\ r.status \notin {400, 401, 403, 429, 500} =>
                    text = "Server error (Status " \o ToString(r.status)
                               \o "): Unexpected error occurred"

\* both a status of the table and a status outside it have been reported
C12_Witness ==
    /\ \E i \in BotPositions :
          messages[i].content = "Server error (Status 404): Unexpected error occurred"
    /\ \E c \in CycleIds :
          /\ cycles[c].submitResp.status = 403
          /\ Appended(c, "Server error (Status 403): Access forbidden")

\* C13: a 2xx JSON answer of the submission endpoint that names a job starts
\* one poll chain for that job (its first query is issued at once and the
\* chain never has more than one query beyond the "in progress" answers it
\* received); one that names none ends the cycle with the no-job-id error as
\* its only bot message and no status query.
C13_JobIdOrError ==
    /\ OneAppendEach
    /\ \A c \in CycleIds :
          LET r == cycles[c].submitResp IN
          r # NoResp /\ ~r.threw /\ r.status \in 200..299
             /\ r.ctype = "application/json" /\ r.body.valid =>
              IF r.body.has /\ r.body.str # ""
              THEN /\ cycles[c].queries >= 1
                   /\ cycles[c].queries \in {cycles[c].busy, cycles[c].busy + 1}
                   /\ cycles[c].messageId = r.body.str
                   /\ cycles[c].pc = "status" => cycles[c].queries = cycles[c].busy + 1
              ELSE /\ cycles[c].pc = "done"
                   /\ cycles[c].queries = 0
                   /\ mounted => Appended(c, "No messageId received in the response")

\* a cycle ended by a JSON answer without a job id, and a cycle polling the
\* job its JSON answer named
C13_Witness ==
    /\ \E c \in CycleIds :
          /\ cycles[c].submitResp = Resp(FALSE, 200, "application/json", Body(TRUE, FALSE, ""))
          /\ cycles[c].queries = 0
          /\ Appended(c, "No messageId received in the response")
    /\ \E c \in CycleIds :
          /\ cycles[c].pc = "status"
          /\ cycles[c].messageId = "job-1"
          /\ cycles[c].queries = 1

\* C14: a status query that is rejected or whose JSON does not parse, at
\* whatever attempt, ends the chain at once with the poll-error text as its
\* only bot message; a chain never has more queries than "in progress"
\* answers plus one, so nothing but such an answer leads to a retry.
C14_HardErrorEndsPolling ==
    /\ OneAppendEach
    /\ \A c \in CycleIds :
          LET f == cycles[c].final IN
          /\ cycles[c].queries <= cycles[c].busy + 1
          /\ f.threw \/ (f # NoResp /\ f.ctype = "application/json" /\ ~f.body.valid) =>
                /\ cycles[c].pc = "done"
                /\ cycles[c].queries = cycles[c].busy + 1
                /\ cycles[c].busy <= 30
                /\ mounted =>
                      Appended(c, "I apologize, but I encountered an error while processing your request.")

\* a parse failure at the third attempt
C14_Witness ==
    \E c \in CycleIds :
        /\ cycles[c].final =
              Resp(FALSE, 200, "application/json", Body(FALSE, FALSE, "Unexpected end of JSON input"))
        /\ cycles[c].busy = 2
        /\ cycles[c].queries = 3
        /\ cycles[c].pc = "done"
        /\ Appended(c, PollErrorText)

\* C15: a final JSON answer of the status endpoint without the reply content
\* ends the chain as a reply, not as a failure: its only bot message is the
\* fallback text, which is neither the poll-error nor the timeout text.
C15_MissingContentFallback ==
    /\ FallbackText # PollErrorText
    /\ FallbackText # TimeoutText
    /\ OneAppendEach
    /\ \A c \in CycleIds :
          LET f == cycles[c].final IN
          f # NoResp /\ ~f.threw /\ f.ctype = "application/json"
             /\ f.body.valid /\ ~f.body.has =>
              /\ cycles[c].pc = "done"
              /\ cycles[c].outcome = "ready"
              /\ mounted =>
                    Appended(c, "I apologize, but I couldn't understand your request.")

C15_Witness ==
    \E c \in CycleIds :
        /\ cycles[c].final = Resp(FALSE, 200, "application/json", Body(TRUE, FALSE, ""))
        /\ cycles[c].outcome = "ready"
        /\ Appended(c, FallbackText)

\* C16: the bot message for a final plain-text answer of the status
\* endpoint is the whole body, also when the body is empty.
C16_PlainTextVerbatim ==
    \A c \in CycleIds :
        LET f == cycles[c].final IN
        f # NoResp /\ ~f.threw /\ f.ctype = "text/plain" /\ cycles[c].botIdx # 0 =>
            messages[cycles[c].botIdx].content = f.body.str

\* C17: a chain ends with a reply only on a status answer whose status is a
\* success status other than 202.
C17_ReplyOnlyOnSuccess ==
    \A c \in CycleIds :
        cycles[c].pc = "done" /\ cycles[c].outcome = "ready" =>
            /\ cycles[c].final.status \in 200..299
            /\ cycles[c].final.status # 202

\* C18: while the component is mounted, the busy flag is on whenever a cycle
\* has a request in flight or a retry timer pending.
C18_TypingWhileUnresolved ==
    mounted /\ (\E c \in CycleIds : Running(c)) => isTyping = TRUE

\* C19: a submission leaves the pending retry timer of an earlier cycle
\* pending.
C19_TimerSurvivesSubmit ==
    [][\A c \in CycleIds :
          cycles[c].pc = "timer" /\ nCycles' = nCycles + 1 => cycles'[c].pc = "timer"]_vars

\* C20: a submit with an empty or all-blank input changes nothing: any step
\* handleSubmit takes from such a state leaves the log, the requests, the
\* busy flag, the input text and the timers as they were.
C20_BlankSubmitNoOp ==
    [][handleSubmit /\ Trim(input) = "" => UNCHANGED vars]_vars

\* a submit is possible with an input of blanks, a cycle polling and the
\* busy flag on
C20_Witness ==
    /\ input = " "
    /\ isTyping = TRUE
    /\ \E c \in CycleIds : cycles[c].pc = "status"
    /\ ENABLED handleSubmit

====
